---- MODULE Spec2Model ----
(***************************************************************************)
(* Model of Automated_Access.ino: the height-gated RFID access loop.       *)
(*                                                                         *)
(* One pass of loop() is split at the points where the environment can    *)
(* act: the distance measurement (Measure), each evaluation of the        *)
(* card-wait condition (PollCard when the window is open, WindowElapsed   *)
(* when it is closed) and the final rfid.PICC_HaltA() (Halt).  Every      *)
(* blocking call between two such points belongs to the action that       *)
(* starts at the earlier point, and is recorded, in program order, in     *)
(* the effect trace of the current pass.                                  *)
(***************************************************************************)
EXTENDS Integers, Sequences, FiniteSets, TLC

(***************************************************************************)
(* Program constants.                                                      *)
(***************************************************************************)
MAX_DISTANCE == 400
BUZZER_PIN == 7
SENSOR_HEIGHT == 208
MIN_HEIGHT_FOR_ACCESS == 100
HEIGHT_LIMIT == 400
WINDOW_MS == 8000

\* ping_cm() returns 0 (NewPing's NO_ECHO) when no echo arrives in range.
NO_ECHO == 0

\* int is 16 bits wide on the Arduino Uno (AVR) the sketch is written for.
INT_MAX == 32767
INT_MIN == -32768

\* unsigned long is 32 bits wide; a value is held as <<high, low>> 16-bit
\* limbs, so that the arithmetic modulo 2^32 is computed exactly.
LIMB == 65536

(***************************************************************************)
(* Bounds of the model.                                                    *)
(***************************************************************************)
\* How many times an authorised card is presented in a run.
MaxGrants == 3
\* Granularity, in ms, of the time one pass of the card-wait loop takes.
PollMs == 2000
\* Longest serial number rendered, and longest table scanned, when the
\* rendering and the matching are checked over arbitrary inputs.
MaxUidLen == 3
MaxTable == 2

(***************************************************************************)
(* Inputs.                                                                 *)
(***************************************************************************)
\* Readings of sonar.ping_cm(): NO_ECHO, and distances 1..MAX_DISTANCE at
\* and around every branch point of the height classification.
Distances ==
    { NO_ECHO, 1, 90,
      SENSOR_HEIGHT - MIN_HEIGHT_FOR_ACCESS - 1,
      SENSOR_HEIGHT - MIN_HEIGHT_FOR_ACCESS,
      SENSOR_HEIGHT - MIN_HEIGHT_FOR_ACCESS + 1,
      150, SENSOR_HEIGHT - 1, SENSOR_HEIGHT, SENSOR_HEIGHT + 1, MAX_DISTANCE }

\* Card serial numbers the reader can deliver (rfid.uid.uidByte[0..size-1]).
CardAbdalla == <<4, 74, 245, 106, 44, 89, 128>>
CardNafea == <<254, 138, 2, 191>>
CardSamy == <<159, 48, 25, 137>>
CardStranger == <<222, 173, 190, 239>>
Cards == { CardAbdalla, CardNafea, CardSamy, CardStranger }

\* Values of millis() at the moment a card-wait window opens: just after
\* start-up, mid-range, and shortly before the 32-bit counter wraps.
ClockSamples == { <<0, 0>>, <<1, 4464>>, <<LIMB - 1, LIMB - 3000>>, <<LIMB - 1, LIMB - 1>> }

\* Time one pass of the card-wait loop can take.
PollSteps == { PollMs, 3 * PollMs }

(***************************************************************************)
(* unsigned long arithmetic (modulo 2^32) on <<high, low>> limbs.          *)
(***************************************************************************)
U32Add(a, n) ==
    LET lo == a[2] + n
    IN  << (a[1] + (lo \div LIMB)) % LIMB, lo % LIMB >>

U32Sub(a, b) ==
    LET lo == a[2] - b[2]
        borrow == IF lo < 0 THEN 1 ELSE 0
    IN  << (a[1] - b[1] - borrow + LIMB) % LIMB, (lo + LIMB) % LIMB >>

U32Less(a, n) == a[1] = 0 /\ a[2] < n

\* millis() - startTime < 8000
WindowOpenForever(now, start) == TRUE

\* millis() < startTime + 8000
WindowOpenByDeadline(now, start) ==
    LET deadline == U32Add(start, WINDOW_MS)
    IN  now[1] < deadline[1] \/ (now[1] = deadline[1] /\ now[2] < deadline[2])

WindowOpen(now, start) == U32Less(U32Sub(now, start), WINDOW_MS)

(***************************************************************************)
(* Effects.  An effect is one call on a collaborator: op is the call, txt  *)
(* its text argument ("" if none), n and m its numeric arguments (0 if     *)
(* none).                                                                  *)
(***************************************************************************)
Ev(op, txt, n, m) == [op |-> op, txt |-> txt, n |-> n, m |-> m]

SerialLine(s) == Ev("Serial.println", s, 0, 0)
SerialNum(v) == Ev("Serial.println", "", v, 0)
SerialText(s) == Ev("Serial.print", s, 0, 0)
BtLine(s) == Ev("bluetooth.println", s, 0, 0)
BtNum(v) == Ev("bluetooth.println", "", v, 0)
BtText(s) == Ev("bluetooth.print", s, 0, 0)
Delay(ms) == Ev("delay", "", ms, 0)
BuzzerWrite(level) == Ev("digitalWrite", level, BUZZER_PIN, 0)
IsNewCardPresentCall == Ev("PICC_IsNewCardPresent", "", 0, 0)
ReadCardSerialCall == Ev("PICC_ReadCardSerial", "", 0, 0)
HaltCall == Ev("PICC_HaltA", "", 0, 0)

soundBuzzerSuccessLeftHigh == << BuzzerWrite("HIGH"), Delay(600) >>

soundBuzzerSuccess == << BuzzerWrite("HIGH"), Delay(600), BuzzerWrite("LOW") >>

soundBuzzerFail == << Ev("toneAC", "", 1000, 200), Delay(200) >>

(***************************************************************************)
(* State.                                                                  *)
(***************************************************************************)
VARIABLES
    pc,          \* "idle": top of loop(); "wait": at the while test; "halt": before PICC_HaltA
    distance,    \* float distance of the current pass
    height,      \* float height of the current pass
    startTime,   \* unsigned long startTime
    millis,      \* the millisecond clock as last advanced
    rfidUid,     \* rfid.uid: serial number of the card last read
    uidString,   \* String uidString of the last successful read
    result,      \* AccessResult result of the last successful read
    authorizedUsers, \* User authorizedUsers[]: a global array, not declared const
    peopleCount, \* int peopleCount
    buzzer,      \* level of BUZZER_PIN
    trace,       \* effects of the current pass, in program order
    outcome,     \* history: "Granted" or "Rejected" once the current pass has decided, else "none"
    cardRead,    \* history: a card read has succeeded in the current pass
    countBefore, \* history: peopleCount when the current pass began
    elapsed,     \* history: ms really gone by since the card-wait window opened
    grants,      \* history: number of grants since start-up
    budget       \* environment: authorised presentations still to come

vars == << pc, distance, height, startTime, millis, rfidUid, uidString, result,
           authorizedUsers, peopleCount, buzzer, trace, outcome, cardRead,
           countBefore, elapsed, grants, budget >>

(***************************************************************************)
(* The authorised table as the initialiser of authorizedUsers[] gives it.  *)
(***************************************************************************)
StartupUsers ==
    << [name |-> "Abdalla Nassar", uid |-> "4 4a f5 6a 2c 59 80"],
       [name |-> "Nafea", uid |-> "fe 8a 2 bf"],
       [name |-> "samy", uid |-> "9F 30 19 89"] >>

numUsers == Len(authorizedUsers)

(***************************************************************************)
(* Rendering of a card serial number: String(byte, HEX) per byte, lower    *)
(* case, no leading zero, joined by single spaces.                         *)
(***************************************************************************)
HexDigit == << "0", "1", "2", "3", "4", "5", "6", "7",
               "8", "9", "a", "b", "c", "d", "e", "f" >>

HexStringPadded(b) == HexDigit[(b \div 16) + 1] \o HexDigit[(b % 16) + 1]

HexString(b) ==
    IF b < 16 THEN HexDigit[b + 1]
    ELSE HexDigit[(b \div 16) + 1] \o HexDigit[(b % 16) + 1]

RECURSIVE RenderFrom(_, _)
RenderFrom(bytes, i) ==
    IF i > Len(bytes) THEN ""
    ELSE HexString(bytes[i]) \o (IF i < Len(bytes) THEN " " ELSE "")
         \o RenderFrom(bytes, i + 1)

RenderUid(bytes) == RenderFrom(bytes, 1)

(***************************************************************************)
(* Matching: linear scan in table order, String.equals, first match wins.  *)
(***************************************************************************)
RECURSIVE MatchFrom(_, _)
MatchFromAny(uidStr, i) ==
    IF i > numUsers THEN [accessGranted |-> FALSE, userName |-> ""]
    ELSE [accessGranted |-> TRUE, userName |-> authorizedUsers[i].name]

MatchFromNoBreak(uidStr, i) ==
    LET hits == { k \in i..numUsers : uidStr = authorizedUsers[k].uid }
    IN  IF hits = {} THEN [accessGranted |-> FALSE, userName |-> ""]
        ELSE [accessGranted |-> TRUE,
              userName |-> authorizedUsers[CHOOSE k \in hits : \A j \in hits : j <= k].name]

MatchFrom(uidStr, i) ==
    IF i > numUsers THEN [accessGranted |-> FALSE, userName |-> ""]
    ELSE IF uidStr = authorizedUsers[i].uid
         THEN [accessGranted |-> TRUE, userName |-> authorizedUsers[i].name]
         ELSE MatchFrom(uidStr, i + 1)

MatchUid(uidStr) == MatchFrom(uidStr, 1)

\* The table after the scan: String::equals only reads its operands.
TableAfterScanAssigning(table, uidStr) ==
    [table EXCEPT ![1] = [name |-> table[1].name, uid |-> uidStr]]

TableAfterScan(table, uidStr) == table

\* The level of BUZZER_PIN after a sequence of effects.
RECURSIVE PinAfter(_, _)
PinAfter(level, effects) ==
    IF effects = << >> THEN level
    ELSE PinAfter(IF Head(effects).op = "digitalWrite" THEN Head(effects).txt ELSE level,
                  Tail(effects))

(***************************************************************************)
(* Height classification.                                                  *)
(***************************************************************************)
HeightOf(d) == SENSOR_HEIGHT - d

IsValidHeight(h) == h > 0 /\ h < HEIGHT_LIMIT

IsTooShortLoose(h) == h < MIN_HEIGHT_FOR_ACCESS - 1

IsTooShort(h) == h < MIN_HEIGHT_FOR_ACCESS

MeetsHeightInclusive(h) == h >= MIN_HEIGHT_FOR_ACCESS

MeetsHeight(h) == h > MIN_HEIGHT_FOR_ACCESS

(***************************************************************************)
(* peopleCount++ on a 16-bit signed int.  Incrementing INT_MAX is signed   *)
(* overflow, which is undefined: the stored result is any int, among them  *)
(* the two's-complement wrap INT_MIN that avr-gcc's add instruction gives. *)
(***************************************************************************)
IncrementOutcomes(c) ==
    IF c < INT_MAX THEN { c + 1 } ELSE { INT_MIN, -1, 0, INT_MAX }

NoResult == [accessGranted |-> FALSE, userName |-> ""]

\* The state after setup().
Init ==
    /\ pc = "idle"
    /\ distance = 0
    /\ height = 0
    /\ startTime = <<0, 0>>
    /\ millis = <<0, 0>>
    /\ rfidUid = <<>>
    /\ uidString = ""
    /\ result = NoResult
    /\ authorizedUsers = StartupUsers
    /\ peopleCount = 0
    /\ buzzer = "LOW"
    /\ trace = <<>>
    /\ outcome = "none"
    /\ cardRead = FALSE
    /\ countBefore = 0
    /\ elapsed = 0
    /\ grants = 0
    /\ budget = MaxGrants

(***************************************************************************)
(* Feedback sequences of loop().                                           *)
(***************************************************************************)
TooShortFeedback ==
    << SerialLine("Entry denied: Person is too short."),
       BtLine("Entry denied: Person is too short.") >> \o soundBuzzerFail

PromptCardSerialOnly ==
    << SerialLine("Please present NFC card for entry.") >>

PromptCard ==
    << SerialLine("Please present NFC card for entry."),
       BtLine("Please present NFC card for entry.") >>

NoSubjectFeedbackNotified ==
    << SerialLine("No one under the sensor."), BtLine("No one under the sensor.") >>
    \o soundBuzzerFail \o << Delay(1500) >>

NoSubjectFeedback ==
    << SerialLine("No one under the sensor.") >> \o soundBuzzerFail \o << Delay(1500) >>

GrantedFeedbackBuzzerFirst(userName, count) ==
    soundBuzzerSuccess \o
    << SerialLine("Welcome " \o userName),
       SerialText("Count of people: "),
       SerialNum(count),
       BtLine("Welcome " \o userName),
       BtText("Count of people: "),
       BtNum(count) >> \o << Delay(3000) >>

GrantedFeedback(userName, count) ==
    << SerialLine("Welcome " \o userName),
       SerialText("Count of people: "),
       SerialNum(count),
       BtLine("Welcome " \o userName),
       BtText("Count of people: "),
       BtNum(count) >> \o soundBuzzerSuccess \o << Delay(3000) >>

RejectedFeedbackNoHold ==
    << SerialLine("Access denied"), BtLine("Access denied") >> \o soundBuzzerFail

RejectedFeedback ==
    << SerialLine("Access denied"), BtLine("Access denied") >>
    \o soundBuzzerFail \o << Delay(1000) >>

\* rfid.PICC_IsNewCardPresent() && rfid.PICC_ReadCardSerial()
CardReadyIgnoringRead(present, readOk) == present

CardReady(present, readOk) == present /\ readOk

\* The reader calls the test makes: && does not evaluate its right operand
\* when the left one is false.
CardTestCalls(present) ==
    IF present THEN << IsNewCardPresentCall, ReadCardSerialCall >>
    ELSE << IsNewCardPresentCall >>

\* Where control goes after the feedback of a card event: both branches break.
AfterOutcomeRetry(granted) == IF granted THEN "halt" ELSE "wait"

AfterOutcome(granted) == "halt"

\* The last statement of loop().
NoSessionHalt == << >>

SessionHalt == << HaltCall >>

(***************************************************************************)
(* Actions.                                                                *)
(***************************************************************************)
\* loop(), from its first statement to the first test of the while
\* condition or, on the paths without a card-wait, to the statement before
\* rfid.PICC_HaltA().
Measure ==
    /\ pc = "idle"
    /\ \E d \in Distances :
         LET h == HeightOf(d)
             diag == << SerialNum(h), SerialNum(d) >>
         IN  /\ distance' = d
             /\ height' = h
             /\ IF IsValidHeight(h)
                THEN IF IsTooShort(h)
                     THEN /\ trace' = diag \o TooShortFeedback
                          /\ pc' = "halt"
                          /\ UNCHANGED << startTime, millis >>
                     ELSE IF MeetsHeight(h)
                          THEN /\ trace' = diag \o PromptCard
                               /\ \E now \in ClockSamples :
                                    /\ millis' = now
                                    /\ startTime' = now
                               /\ pc' = "wait"
                          ELSE /\ trace' = diag
                               /\ pc' = "halt"
                               /\ UNCHANGED << startTime, millis >>
                ELSE /\ trace' = diag \o NoSubjectFeedback
                     /\ pc' = "halt"
                     /\ UNCHANGED << startTime, millis >>
    /\ uidString' = ""
    /\ result' = NoResult
    /\ outcome' = "none"
    /\ cardRead' = FALSE
    /\ countBefore' = peopleCount
    /\ elapsed' = 0
    /\ buzzer' = PinAfter(buzzer, trace')
    /\ UNCHANGED << rfidUid, authorizedUsers, peopleCount, grants, budget >>

\* One pass of the while loop whose condition holds: the card test and, on
\* a successful read, rendering, matching and the feedback of the outcome.
PollCard ==
    /\ pc = "wait"
    /\ WindowOpen(millis, startTime)
    /\ \E present \in BOOLEAN, readOk \in BOOLEAN, card \in Cards, dt \in PollSteps :
         /\ MatchUid(RenderUid(card)).accessGranted => budget > 0
         /\ cardRead' = (cardRead \/ (present /\ readOk))
         /\ elapsed' = elapsed + dt
         /\ IF CardReady(present, readOk)
            THEN LET u == RenderUid(card)
                     r == MatchUid(u)
                 IN  /\ rfidUid' = card
                     /\ uidString' = u
                     /\ result' = r
                     /\ authorizedUsers' = TableAfterScan(authorizedUsers, u)
                     /\ IF r.accessGranted
                        THEN /\ \E c \in IncrementOutcomes(peopleCount) :
                                  /\ peopleCount' = c
                                  /\ trace' = trace \o CardTestCalls(present)
                                                \o << SerialLine(u) >>
                                                \o GrantedFeedback(r.userName, c)
                             /\ outcome' = "Granted"
                             /\ grants' = grants + 1
                             /\ budget' = budget - 1
                        ELSE /\ trace' = trace \o CardTestCalls(present)
                                           \o << SerialLine(u) >>
                                           \o RejectedFeedback
                             /\ outcome' = "Rejected"
                             /\ UNCHANGED << peopleCount, grants, budget >>
                     /\ pc' = AfterOutcome(r.accessGranted)
                     /\ millis' = U32Add(millis, dt)
            ELSE /\ trace' = trace \o CardTestCalls(present)
                 /\ millis' = U32Add(millis, dt)
                 /\ pc' = "wait"
                 /\ UNCHANGED << rfidUid, uidString, result, authorizedUsers, peopleCount,
                                 outcome, grants, budget >>
    /\ buzzer' = PinAfter(buzzer, SubSeq(trace', Len(trace) + 1, Len(trace')))
    /\ UNCHANGED << distance, height, startTime, countBefore >>

\* The while condition fails: the window is over, no card was read.
WindowElapsed ==
    /\ pc = "wait"
    /\ ~WindowOpen(millis, startTime)
    /\ pc' = "halt"
    /\ UNCHANGED << distance, height, startTime, millis, rfidUid, uidString, result,
                    authorizedUsers, peopleCount, buzzer, trace, outcome, cardRead,
                    countBefore, elapsed, grants, budget >>

\* rfid.PICC_HaltA() and the return from loop().
Halt ==
    /\ pc = "halt"
    /\ trace' = trace \o SessionHalt
    /\ pc' = "idle"
    /\ buzzer' = PinAfter(buzzer, SessionHalt)
    /\ UNCHANGED << distance, height, startTime, millis, rfidUid, uidString, result,
                    authorizedUsers, peopleCount, outcome, cardRead, countBefore,
                    elapsed, grants, budget >>

Next == Measure \/ PollCard \/ WindowElapsed \/ Halt

Spec == Init /\ [][Next]_vars

\* The processor never stops: loop() is called again whenever it returns,
\* and every statement of it completes.
SpecFair == Init /\ [][Next]_vars /\ WF_vars(Next)

(***************************************************************************)
(* The program late in its life: the top of loop() when INT_MAX - 1        *)
(* grants have been made since start-up, the last of them to the first     *)
(* card of the table.  The effects of the earlier passes are not kept.     *)
(***************************************************************************)
InitLate ==
    /\ pc = "idle"
    /\ distance = 90
    /\ height = HeightOf(90)
    /\ startTime = <<0, 0>>
    /\ millis = <<0, 0>>
    /\ rfidUid = CardAbdalla
    /\ uidString = RenderUid(CardAbdalla)
    /\ authorizedUsers = StartupUsers
    /\ result = MatchUid(RenderUid(CardAbdalla))
    /\ peopleCount = INT_MAX - 1
    /\ buzzer = "LOW"
    /\ trace = <<>>
    /\ outcome = "none"
    /\ cardRead = FALSE
    /\ countBefore = INT_MAX - 1
    /\ elapsed = 0
    /\ grants = INT_MAX - 1
    /\ budget = MaxGrants

SpecLate == InitLate /\ [][Next]_vars

(***************************************************************************)
(* The rendering and the matching on their own: the statements of loop()   *)
(* between a successful read and the test of result.accessGranted, run on  *)
(* any serial number up to MaxUidLen bytes and any table up to MaxTable    *)
(* entries (duplicate uids and upper-case uids among them).                *)
(***************************************************************************)
UidBytes == { 0, 15, 16, 170, 187 }

ByteSeqs == UNION { [1..n -> UidBytes] : n \in 0..MaxUidLen }

TableEntries == [name : { "A", "B" }, uid : { "aa bb", "AA BB" }]

Tables == UNION { [1..n -> TableEntries] : n \in 1..MaxTable }

InitCard ==
    /\ pc = "read"
    /\ distance = 90
    /\ height = HeightOf(90)
    /\ startTime = <<0, 0>>
    /\ millis = <<0, 0>>
    /\ rfidUid \in ByteSeqs
    /\ uidString = ""
    /\ result = NoResult
    /\ authorizedUsers \in Tables
    /\ peopleCount = 0
    /\ buzzer = "LOW"
    /\ trace = <<>>
    /\ outcome = "none"
    /\ cardRead = TRUE
    /\ countBefore = 0
    /\ elapsed = 0
    /\ grants = 0
    /\ budget = MaxGrants

\* String uidString = ""; for (...) uidString += ...
RenderStep ==
    /\ pc = "read"
    /\ uidString' = RenderUid(rfidUid)
    /\ pc' = "rendered"
    /\ UNCHANGED << distance, height, startTime, millis, rfidUid, result, authorizedUsers,
                    peopleCount, buzzer, trace, outcome, cardRead, countBefore, elapsed,
                    grants, budget >>

\* AccessResult result; result.accessGranted = false; for (...) if (equals) ...
MatchStep ==
    /\ pc = "rendered"
    /\ result' = MatchUid(uidString)
    /\ authorizedUsers' = TableAfterScan(authorizedUsers, uidString)
    /\ pc' = "matched"
    /\ UNCHANGED << distance, height, startTime, millis, rfidUid, uidString,
                    peopleCount, buzzer, trace, outcome, cardRead, countBefore, elapsed,
                    grants, budget >>

NextCard == RenderStep \/ MatchStep

SpecCard == InitCard /\ [][NextCard]_vars

(***************************************************************************)
(* Vocabulary of the properties.                                           *)
(***************************************************************************)
\* A pass of loop() has begun (and, when pc = "idle", has ended).
PassBegun == trace # << >>

InRangeHeight == height > 100 /\ height < 400

IsCardCall(e) == e.op \in { "PICC_IsNewCardPresent", "PICC_ReadCardSerial" }

CardCalls == { i \in DOMAIN trace : IsCardCall(trace[i]) }

HaltCalls == { i \in DOMAIN trace : trace[i].op = "PICC_HaltA" }

TableUids == { "4 4a f5 6a 2c 59 80", "fe 8a 2 bf", "9F 30 19 89" }

TableNames == { "Abdalla Nassar", "Nafea", "samy" }

IsWelcome(e) ==
    /\ e.op \in { "Serial.println", "bluetooth.println" }
    /\ \E nm \in TableNames : e.txt = "Welcome " \o nm

IsDenied(e) ==
    /\ e.op \in { "Serial.println", "bluetooth.println" }
    /\ e.txt = "Access denied"

WelcomeLines == { i \in DOMAIN trace : IsWelcome(trace[i]) }

\* The outcomes announced on the local log in the current pass.
OutcomeLines ==
    { i \in DOMAIN trace :
        trace[i].op = "Serial.println" /\ (IsWelcome(trace[i]) \/ IsDenied(trace[i])) }

\* Everything but the two diagnostic prints of height and distance, the
\* card calls and the session halt: the feedback of the pass.
IsFeedback(e) ==
    \/ e.op \in { "bluetooth.println", "bluetooth.print", "Serial.print",
                  "toneAC", "delay", "digitalWrite" }
    \/ e.op = "Serial.println" /\ e.txt # ""

FailTone == << [op |-> "toneAC", txt |-> "", n |-> 1000, m |-> 200],
               [op |-> "delay", txt |-> "", n |-> 200, m |-> 0] >>

Line(dev, s) == [op |-> dev \o ".println", txt |-> s, n |-> 0, m |-> 0]

(***************************************************************************)
(* C1.  A grant (peopleCount incremented, "Welcome <name>" emitted) occurs *)
(* only in a pass whose height h satisfies 100 < h < 400 and only for a    *)
(* card whose rendered identifier is the uid of a table entry; in a pass   *)
(* not classified InRange the card reader is never polled.                 *)
(***************************************************************************)
C1_GrantedState ==
    /\ (outcome = "Granted" \/ WelcomeLines # {} \/ peopleCount # countBefore)
          => /\ InRangeHeight
             /\ cardRead
             /\ uidString \in TableUids
    /\ (PassBegun /\ ~InRangeHeight) => CardCalls = {}

C1_GrantOnlyInRangeAndAuthorized ==
    /\ []C1_GrantedState
    /\ [][peopleCount' # peopleCount =>
            /\ height > 100 /\ height < 400
            /\ uidString' \in TableUids
            /\ WelcomeLines = {} /\ WelcomeLines' # {}]_vars

C1_Witness ==
    /\ outcome = "Granted"
    /\ height = 118
    /\ uidString = "4 4a f5 6a 2c 59 80"
    /\ peopleCount = countBefore + 1

(***************************************************************************)
(* C2.  A reading with height <= 0 or height >= 400, and also the no-echo  *)
(* reading of ping_cm(), is classified NoSubject: "No one under the        *)
(* sensor." is logged, the card prompt is not emitted and the card-wait    *)
(* window is not opened.                                                   *)
(***************************************************************************)
C2_NoSubjectOnSentinelOrOutOfRange ==
    (PassBegun /\ (distance = 0 \/ height <= 0 \/ height >= 400))
        => /\ pc # "wait"
           /\ CardCalls = {}
           /\ Len(trace) >= 3 /\ trace[3] = Line("Serial", "No one under the sensor.")
           /\ \A i \in DOMAIN trace : trace[i].txt # "Please present NFC card for entry."

\* The part of C2 that the code does satisfy: readings with an echo.
C2_NoSubjectWithEcho ==
    (PassBegun /\ distance # 0 /\ (height <= 0 \/ height >= 400))
        => /\ pc # "wait"
           /\ CardCalls = {}
           /\ Len(trace) >= 3 /\ trace[3] = Line("Serial", "No one under the sensor.")
           /\ \A i \in DOMAIN trace : trace[i].txt # "Please present NFC card for entry."

(***************************************************************************)
(* C3.  A pass with 0 < height < 100 is TooShort: "Entry denied: Person is *)
(* too short." goes to the local log and to the wireless transport, the    *)
(* Fail tone pattern follows, and the card-wait window is not entered.     *)
(***************************************************************************)
C3_TooShort ==
    (PassBegun /\ height > 0 /\ height < 100)
        => /\ pc \in { "halt", "idle" }
           /\ CardCalls = {}
           /\ outcome = "none"
           /\ Len(trace) >= 6
           /\ SubSeq(trace, 3, 6) =
                 << Line("Serial", "Entry denied: Person is too short."),
                    Line("bluetooth", "Entry denied: Person is too short.") >> \o FailTone
           /\ \A i \in 7..Len(trace) : ~IsFeedback(trace[i])

C3_Witness ==
    /\ pc = "halt"
    /\ distance = 150
    /\ height = 58
    /\ Len(trace) = 6
    /\ trace[4].op = "bluetooth.println"

(***************************************************************************)
(* C4.  A pass with 100 < height < 400 is InRange: the prompt "Please      *)
(* present NFC card for entry." goes to the local log and to the wireless  *)
(* transport first, and only then is the card-wait window opened and the   *)
(* card reader polled.                                                     *)
(***************************************************************************)
C4_InRangePromptThenWindow ==
    (PassBegun /\ height > 100 /\ height < 400)
        => /\ Len(trace) >= 4
           /\ SubSeq(trace, 3, 4) =
                 << Line("Serial", "Please present NFC card for entry."),
                    Line("bluetooth", "Please present NFC card for entry.") >>
           /\ \A i \in CardCalls : i > 4
           \* the window was opened: the pass is in it, or has left it on
           \* a card read or on the clock
           /\ \/ pc = "wait"
              \/ cardRead
              \/ ~(U32Sub(millis, startTime)[1] = 0 /\ U32Sub(millis, startTime)[2] < 8000)

C4_Witness ==
    /\ pc = "wait"
    /\ height = 101
    /\ CardCalls # {}
    /\ trace[3] = Line("Serial", "Please present NFC card for entry.")

(***************************************************************************)
(* C5.  Each grant increments peopleCount by exactly 1, and the "Count of  *)
(* people: " line on the local log and on the wireless transport carries   *)
(* the incremented value: after the k-th grant since start-up the count    *)
(* reported is k.                                                          *)
(***************************************************************************)
CountReported(dev, k) ==
    \E i \in DOMAIN trace :
        /\ i < Len(trace)
        /\ trace[i] = [op |-> dev \o ".print", txt |-> "Count of people: ", n |-> 0, m |-> 0]
        /\ trace[i + 1] = [op |-> dev \o ".println", txt |-> "", n |-> k, m |-> 0]

C5_GrantCountsOne ==
    /\ peopleCount = grants
    /\ outcome = "Granted"
          => /\ peopleCount = countBefore + 1
             /\ CountReported("Serial", grants)
             /\ CountReported("bluetooth", grants)

\* The first grants of a run: the count reported after the k-th is k.
C5_GrantCountsOneEarly ==
    grants < 32767 => C5_GrantCountsOne

(***************************************************************************)
(* C6.  peopleCount never decreases and never resets: in every step its    *)
(* new value is at least its old value, and it is strictly greater exactly *)
(* in the steps that grant, for every value the counter can reach.         *)
(***************************************************************************)
C6_CountMonotonic ==
    [][/\ peopleCount' >= peopleCount
       /\ (peopleCount' > peopleCount) <=> (grants' # grants)]_vars

\* The same below the largest value of the counter.
C6_CountMonotonicBelowMax ==
    [][peopleCount < 32767 =>
         /\ peopleCount' >= peopleCount
         /\ (peopleCount' > peopleCount) <=> (grants' # grants)]_vars

(***************************************************************************)
(* C7.  Silent timeout: in an InRange pass in which no card read succeeds  *)
(* during the whole window, no outcome is produced, nothing is dispatched  *)
(* after the prompt (no message, no buzzer pattern, no hold), peopleCount  *)
(* is unchanged, and the pass goes on to the session halt.                 *)
(***************************************************************************)
C7_SilentTimeout ==
    (PassBegun /\ height > 100 /\ height < 400 /\ ~cardRead)
        => /\ outcome = "none"
           /\ OutcomeLines = {}
           /\ peopleCount = countBefore
           /\ \A i \in 5..Len(trace) : ~IsFeedback(trace[i])
           /\ pc = "idle" => (HaltCalls = { Len(trace) } /\ CardCalls # {})
           /\ pc = "halt" => CardCalls # {}

C7_Witness ==
    /\ pc = "idle"
    /\ height = 118
    /\ ~cardRead
    /\ outcome = "none"
    /\ \E i \in DOMAIN trace : trace[i].op = "PICC_ReadCardSerial"
    /\ trace[Len(trace)].op = "PICC_HaltA"

(***************************************************************************)
(* C8.  Every pass of loop(), whatever its path, performs the session halt *)
(* exactly once, as its last action, after all feedback of the pass.       *)
(***************************************************************************)
C8_State ==
    /\ (pc = "idle" /\ PassBegun) => HaltCalls = { Len(trace) }
    /\ pc # "idle" => HaltCalls = {}

C8_HaltOnceLast ==
    /\ []C8_State
    /\ [][pc' = "idle" =>
            /\ pc = "halt"
            /\ Len(trace') = Len(trace) + 1
            /\ SubSeq(trace', 1, Len(trace)) = trace
            /\ trace'[Len(trace')].op = "PICC_HaltA"]_vars

C8_Witness ==
    /\ pc = "idle"
    /\ outcome = "Rejected"
    /\ HaltCalls = { Len(trace) }
    /\ \E i \in DOMAIN trace : IsFeedback(trace[i]) /\ i < Len(trace)

(***************************************************************************)
(* C9.  At height = 100 exactly the pass is neither TooShort nor InRange:  *)
(* no feedback line goes to the log or the wireless transport, no buzzer   *)
(* pattern is performed, no card-wait window is opened, peopleCount is     *)
(* unchanged, and the session halt is the only action.                     *)
(***************************************************************************)
C9_ThresholdFallsThrough ==
    (PassBegun /\ height = 100)
        => /\ pc \in { "halt", "idle" }
           /\ outcome = "none"
           /\ peopleCount = countBefore
           /\ CardCalls = {}
           /\ \A i \in DOMAIN trace : ~IsFeedback(trace[i])
           /\ Len(trace) = IF pc = "idle" THEN 3 ELSE 2
           /\ pc = "idle" => trace[3].op = "PICC_HaltA"

C9_Witness ==
    /\ pc = "idle"
    /\ distance = 108
    /\ height = 100
    /\ Len(trace) = 3

(***************************************************************************)
(* C10.  At most one outcome per pass that reaches the card-wait: the      *)
(* first successful read ends the window at once, the card reader is not   *)
(* polled again in that pass, and after a Rejected or timed-out window no  *)
(* card is read until a later pass has measured an InRange height.         *)
(***************************************************************************)
C10_State ==
    /\ Cardinality(OutcomeLines) <= 1
    /\ cardRead => /\ pc \in { "halt", "idle" }
                   /\ outcome # "none"
                   /\ Cardinality(OutcomeLines) = 1
                   /\ \A i \in CardCalls : \A j \in OutcomeLines : i < j

C10_OneOutcomePerPass ==
    /\ []C10_State
    /\ [][Cardinality({ i \in DOMAIN trace' : IsCardCall(trace'[i]) }) > Cardinality(CardCalls)
            => /\ pc = "wait"
               /\ ~cardRead
               /\ outcome = "none"
               /\ height > 100 /\ height < 400
               /\ SubSeq(trace', 1, Len(trace)) = trace]_vars

C10_Witness ==
    /\ pc = "idle"
    /\ outcome = "Rejected"
    /\ Cardinality(OutcomeLines) = 1
    /\ Cardinality(CardCalls) >= 4

(***************************************************************************)
(* C11.  A successfully read card whose identifier is no uid of the table  *)
(* yields Rejected, never an error state: "Access denied" goes to the      *)
(* local log and to the wireless transport, the Fail tone pattern follows, *)
(* then a 1000 ms hold; peopleCount is unchanged and the pass goes on to   *)
(* the session halt and the next pass.                                     *)
(***************************************************************************)
Hold(ms) == [op |-> "delay", txt |-> "", n |-> ms, m |-> 0]

\* The effects of the pass from the print of the identifier on, the
\* session halt left out.
AfterRead ==
    LET last == IF pc = "idle" THEN Len(trace) - 1 ELSE Len(trace)
        reads == { i \in DOMAIN trace : trace[i].op = "PICC_ReadCardSerial" }
        r == CHOOSE i \in reads : \A k \in reads : k <= i
    IN  SubSeq(trace, r + 2, last)

C11_RejectedState ==
    (cardRead /\ uidString \notin TableUids)
        => /\ outcome = "Rejected"
           /\ pc \in { "halt", "idle" }
           /\ peopleCount = countBefore
           /\ AfterRead = << Line("Serial", "Access denied"),
                             Line("bluetooth", "Access denied") >>
                          \o FailTone \o << Hold(1000) >>

C11_UnknownCardRejected ==
    /\ []C11_RejectedState
    /\ [][(outcome' = "Rejected" /\ pc = "halt") => (pc' = "idle" /\ HaltCalls' # {})]_vars

C11_Witness ==
    /\ pc = "idle"
    /\ cardRead
    /\ uidString = "de ad be ef"
    /\ outcome = "Rejected"

(***************************************************************************)
(* C12.  Effect ordering: for TooShort, Granted and Rejected all message   *)
(* lines to the local log and the wireless transport come before the       *)
(* buzzer pattern, and the pattern is complete before the additional hold; *)
(* for Granted the order is increment, welcome and count lines, Success    *)
(* pattern (buzzer high, 500-600 ms, buzzer low), then the 3000 ms hold.   *)
(* No step is skipped or reordered.                                        *)
(***************************************************************************)
IsMessage(e) ==
    e.op \in { "Serial.println", "Serial.print", "bluetooth.println", "bluetooth.print" }

IsBuzzer(e) == e.op \in { "toneAC", "digitalWrite" }

\* Messages, then the buzzer pattern pat, then the holds that follow it.
MessagesThenPattern(fb, pat, holds) ==
    \E k \in 0..Len(fb) :
        /\ \A i \in 1..k : IsMessage(fb[i])
        /\ k >= 2
        /\ SubSeq(fb, k + 1, Len(fb)) = pat \o holds

SuccessPattern(ms) ==
    << [op |-> "digitalWrite", txt |-> "HIGH", n |-> 7, m |-> 0], Hold(ms),
       [op |-> "digitalWrite", txt |-> "LOW", n |-> 7, m |-> 0] >>

C12_EffectOrder ==
    /\ (PassBegun /\ height > 0 /\ height < 100)
          => MessagesThenPattern(
                 SubSeq(trace, 3, IF pc = "idle" THEN Len(trace) - 1 ELSE Len(trace)),
                 FailTone, << >>)
    /\ outcome = "Rejected" => MessagesThenPattern(AfterRead, FailTone, << Hold(1000) >>)
    /\ outcome = "Granted"
          => /\ \E ms \in 500..600 :
                   MessagesThenPattern(AfterRead, SuccessPattern(ms), << Hold(3000) >>)
             /\ Len(AfterRead) = 10
             /\ IsWelcome(AfterRead[1]) /\ AfterRead[1].op = "Serial.println"
             /\ IsWelcome(AfterRead[4]) /\ AfterRead[4].op = "bluetooth.println"
             \* the increment came first: both count lines carry the stored value
             /\ CountReported("Serial", peopleCount)
             /\ CountReported("bluetooth", peopleCount)

C12_Witness ==
    /\ outcome = "Granted"
    /\ pc = "halt"
    /\ Len(AfterRead) = 10
    /\ AfterRead[7].txt = "HIGH"
    /\ AfterRead[10] = Hold(3000)

(***************************************************************************)
(* C13.  On the NoSubject path "No one under the sensor." goes to the      *)
(* local log only: nothing is sent on the wireless transport in that pass, *)
(* peopleCount and the card reader are untouched apart from the final      *)
(* halt, the Fail tone pattern is performed, and a 1500 ms hold precedes   *)
(* the return to the loop.                                                 *)
(***************************************************************************)
C13_NoSubjectLocalOnly ==
    (PassBegun /\ (height <= 0 \/ height >= 400))
        => /\ \A i \in DOMAIN trace :
                trace[i].op \notin { "bluetooth.println", "bluetooth.print" }
           /\ CardCalls = {}
           /\ peopleCount = countBefore
           /\ outcome = "none"
           /\ pc \in { "halt", "idle" }
           /\ SubSeq(trace, 3, IF pc = "idle" THEN Len(trace) - 1 ELSE Len(trace)) =
                 << Line("Serial", "No one under the sensor.") >>
                 \o FailTone \o << Hold(1500) >>
           /\ pc = "idle" => HaltCalls = { Len(trace) }

C13_Witness ==
    /\ pc = "idle"
    /\ distance = 208
    /\ height = 0
    /\ Len(trace) = 7
    /\ trace[6] = Hold(1500)

(***************************************************************************)
(* C14.  The rendered identifier of bytes b[1..n] is the hexadecimal       *)
(* rendering of each byte without leading-zero padding (0..15 render as    *)
(* one character), consecutive tokens separated by exactly one space, no   *)
(* leading or trailing separator: n tokens and n-1 spaces, and the empty   *)
(* string when n = 0.                                                      *)
(***************************************************************************)
LowerHex == << "0", "1", "2", "3", "4", "5", "6", "7",
               "8", "9", "a", "b", "c", "d", "e", "f" >>

HexTokens == UNION { [1..k -> 1..16] : k \in 1..2 }

\* The value a token of digit indices denotes.
RECURSIVE TokenValue(_)
TokenValue(t) ==
    IF t = << >> THEN 0
    ELSE 16 * TokenValue(SubSeq(t, 1, Len(t) - 1)) + (t[Len(t)] - 1)

\* The token of byte b: the digits that denote b, the first one not "0"
\* unless it is the only one.
TokenOf(b) ==
    CHOOSE t \in HexTokens : TokenValue(t) = b /\ (Len(t) = 1 \/ t[1] # 1)

RECURSIVE TokenText(_)
TokenText(t) == IF t = << >> THEN "" ELSE LowerHex[Head(t)] \o TokenText(Tail(t))

\* Tokens joined by single spaces, as a sequence of characters.
RECURSIVE JoinedChars(_)
JoinedChars(toks) ==
    IF toks = << >> THEN << >>
    ELSE [i \in 1..Len(Head(toks)) |-> LowerHex[Head(toks)[i]]]
         \o (IF Len(toks) > 1 THEN << " " >> ELSE << >>)
         \o JoinedChars(Tail(toks))

RECURSIVE CharsText(_)
CharsText(cs) == IF cs = << >> THEN "" ELSE Head(cs) \o CharsText(Tail(cs))

C14_RenderedIdentifier ==
    pc \in { "rendered", "matched" }
        => LET n == Len(rfidUid)
               toks == [i \in 1..n |-> TokenOf(rfidUid[i])]
               cs == JoinedChars(toks)
               spaces == { i \in DOMAIN cs : cs[i] = " " }
           IN  /\ uidString = CharsText(cs)
               /\ \A i \in 1..n : Len(toks[i]) = IF rfidUid[i] < 16 THEN 1 ELSE 2
               /\ Cardinality(spaces) = IF n = 0 THEN 0 ELSE n - 1
               /\ \A i \in spaces : i > 1 /\ i < Len(cs) /\ (i + 1) \notin spaces
               /\ n = 0 => uidString = ""

C14_Witness ==
    /\ pc = "rendered"
    /\ rfidUid = << 0, 170, 15 >>
    /\ uidString = "0 aa f"

(***************************************************************************)
(* C15.  Matching is an exact, case-sensitive string comparison scanned in *)
(* table order, first match wins: for any table (duplicate uids included)  *)
(* and any identifier, the outcome is Granted with the name of the         *)
(* lowest-index entry whose uid equals the identifier, and Rejected if and *)
(* only if no entry's uid equals it.                                       *)
(***************************************************************************)
C15_FirstMatchWins ==
    pc = "matched"
        => LET hits == { i \in DOMAIN authorizedUsers : authorizedUsers[i].uid = uidString }
           IN  /\ result.accessGranted <=> hits # {}
               /\ hits # {} =>
                    result.userName =
                        authorizedUsers[CHOOSE i \in hits : \A j \in hits : i <= j].name

C15_Witness ==
    /\ pc = "matched"
    /\ authorizedUsers = << [name |-> "A", uid |-> "aa bb"], [name |-> "B", uid |-> "aa bb"] >>
    /\ uidString = "aa bb"
    /\ result = [accessGranted |-> TRUE, userName |-> "A"]

\* An upper-case table uid is not matched by the lower-case rendering.
C15_CaseSensitive ==
    (pc = "matched" /\ uidString = "aa bb" /\ \A i \in DOMAIN authorizedUsers :
                                                  authorizedUsers[i].uid = "AA BB")
        => ~result.accessGranted

(***************************************************************************)
(* C16.  The card-wait window is time-bounded and the loop runs forever:   *)
(* with the clock advancing, every pass that opens the window leaves it    *)
(* (on the first successful read, or once 8000 ms have gone by) and        *)
(* reaches the session halt; from every reachable state the loop returns   *)
(* to the top and starts a new measurement; no state is a deadlock.        *)
(***************************************************************************)
C16_LoopRunsForever ==
    /\ [](ENABLED Next)
    /\ [][(pc = "wait" /\ pc' # "wait") => (pc' = "halt" /\ (cardRead' \/ elapsed >= 8000))]_vars
    /\ [][(pc = "wait" /\ elapsed >= 8000) => pc' = "halt"]_vars
    \* the window is left only towards the halt, the halt only towards the
    \* top of loop(), and neither the top nor the rest of a pass lasts forever
    /\ [][(pc = "halt" /\ pc' # "halt") => (pc' = "idle" /\ HaltCalls' # {})]_vars
    /\ []<>(pc = "idle")
    /\ []<>(pc # "idle")

C16_Witness ==
    /\ pc = "halt"
    /\ height = 118
    /\ ~cardRead
    /\ elapsed >= 8000
    /\ CardCalls # {}

(***************************************************************************)
(* C17.  The authorised table is never mutated: in every reachable state   *)
(* authorizedUsers holds exactly the three start-up entries in the same    *)
(* order, no path of loop() writes to it, and of the data the sketch keeps *)
(* for the life of the process only peopleCount is changed by loop().      *)
(***************************************************************************)
C17_TableNeverMutated ==
    /\ [](authorizedUsers =
            << [name |-> "Abdalla Nassar", uid |-> "4 4a f5 6a 2c 59 80"],
               [name |-> "Nafea", uid |-> "fe 8a 2 bf"],
               [name |-> "samy", uid |-> "9F 30 19 89"] >>)
    /\ [][authorizedUsers' = authorizedUsers]_vars
    /\ [][peopleCount' # peopleCount => (pc = "wait" /\ outcome' = "Granted")]_vars

C17_Witness ==
    /\ pc = "idle"
    /\ peopleCount = 2
    /\ outcome = "Rejected"
    /\ Len(authorizedUsers) = 3
    /\ authorizedUsers[2].uid = "fe 8a 2 bf"

(***************************************************************************)
(* C18.  Every entry of the authorised table is reachable: for each user   *)
(* there is a card serial number whose rendering by loop() equals the      *)
(* stored uid, so that each listed user can obtain a grant.                *)
(*                                                                         *)
(* A rendering is the tokens String(byte, HEX) of the bytes joined by      *)
(* single spaces, and no token holds a space, so a serial number renders   *)
(* to a uid exactly when it has one byte per token of the uid and each     *)
(* byte renders to its token.  EntryTokens splits the stored uids at their *)
(* spaces; CardsRendering(i) is therefore every serial number that can     *)
(* render to the uid of entry i.                                           *)
(***************************************************************************)
EntryTokens ==
    << << "4", "4a", "f5", "6a", "2c", "59", "80" >>,
       << "fe", "8a", "2", "bf" >>,
       << "9F", "30", "19", "89" >> >>

RECURSIVE JoinTokens(_)
JoinTokens(toks) ==
    IF toks = << >> THEN ""
    ELSE Head(toks) \o (IF Len(toks) > 1 THEN " " ELSE "") \o JoinTokens(Tail(toks))

BytesRendering(tok) == { b \in 0..255 : HexString(b) = tok }

CardsRendering(i) ==
    LET toks == EntryTokens[i]
    IN  IF \A j \in DOMAIN toks : BytesRendering(toks[j]) # {}
        THEN { [j \in DOMAIN toks |-> CHOOSE b \in BytesRendering(toks[j]) : TRUE] }
        ELSE {}

C18_EveryEntryReachable ==
    \A i \in DOMAIN authorizedUsers :
        /\ JoinTokens(EntryTokens[i]) = authorizedUsers[i].uid
        /\ \E card \in CardsRendering(i) : RenderUid(card) = authorizedUsers[i].uid

\* What the code does do: the first two entries are reachable, and the
\* third user is never welcomed although the card 9F 30 19 89 is presented.
C18_FirstTwoReachable ==
    \A i \in 1..2 :
        /\ JoinTokens(EntryTokens[i]) = authorizedUsers[i].uid
        /\ \E card \in CardsRendering(i) : RenderUid(card) = authorizedUsers[i].uid

C18_ThirdNeverWelcomed ==
    /\ \A i \in DOMAIN trace : trace[i].txt # "Welcome samy"
    /\ (cardRead /\ rfidUid = << 159, 48, 25, 137 >>) => outcome = "Rejected"

(***************************************************************************)
(* C19.  The test millis() - startTime < 8000, computed modulo 2^32,       *)
(* measures the elapsed time for every startTime, also when millis() wraps *)
(* during the window: the window is open at every poll less than 8000 ms   *)
(* after it opened and closed at the first poll 8000 ms or more after it   *)
(* opened; it never ends early and never stays open for a wrap period.     *)
(***************************************************************************)
StartSamples ==
    { << hi, lo >> : hi \in { 0, 1, 65535 }, lo \in { 0, 1, 57535, 57536, 57537, 65535 } }

GapSamples == { 0, 1, 7999, 8000, 8001, 65535, 65536, 1000000 }

C19_TestIsElapsedTime ==
    \A start \in StartSamples : \A gap \in GapSamples :
        WindowOpen(U32Add(start, gap), start) <=> gap < 8000

C19_WindowMeasuresElapsed ==
    /\ []C19_TestIsElapsedTime
    \* less than 8000 ms after the opening the next step is a poll
    /\ [][(pc = "wait" /\ elapsed < 8000)
            => Cardinality({ i \in DOMAIN trace' : IsCardCall(trace'[i]) })
                 > Cardinality(CardCalls)]_vars
    \* 8000 ms or more after the opening the next step closes the window
    /\ [][(pc = "wait" /\ elapsed >= 8000) => (pc' = "halt" /\ trace' = trace)]_vars

\* A window that opened 3000 ms before millis() wrapped and has been polled
\* 0, 2000, 4000 and 6000 ms after it opened, the last two times after the
\* wrap; the clock now reads 5000.
C19_Witness ==
    /\ pc = "wait"
    /\ startTime = << 65535, 62536 >>
    /\ millis = << 0, 5000 >>
    /\ elapsed = 8000
    /\ Cardinality(CardCalls) >= 4

(***************************************************************************)
(* C20.  The buzzer output is never left driven high: it is low after      *)
(* setup(), high only inside the Success pattern of a grant, and low at    *)
(* every boundary of a pass (at the session halt and when the next         *)
(* measurement starts), after any sequence of passes and outcomes.         *)
(***************************************************************************)
HighWrites ==
    { i \in DOMAIN trace : trace[i].op = "digitalWrite" /\ trace[i].txt = "HIGH" }

C20_BuzzerNeverLeftHigh ==
    /\ buzzer = "LOW"
    /\ HighWrites # {} => outcome = "Granted"
    /\ \A i \in HighWrites :
          /\ i + 2 <= Len(trace)
          /\ trace[i + 1].op = "delay"
          /\ trace[i + 2] = [op |-> "digitalWrite", txt |-> "LOW", n |-> 7, m |-> 0]

C20_Witness ==
    /\ pc = "idle"
    /\ outcome = "Granted"
    /\ grants = 2
    /\ HighWrites # {}
    /\ buzzer = "LOW"
====
